---- MODULE Spec2Model ----
(***************************************************************************)
(* Root module compiler of consul-terraform-sync (templates/tftmpl/root.go) *)
(* as a state machine: the Attribute Normalizer (RootModuleInputData.init), *)
(* the provider-block part of the main.tf renderer, and the Bundle Writer   *)
(* (InitRootModule / initModule) over a small file system.                  *)
(***************************************************************************)
EXTENDS Integers, Sequences, FiniteSets, TLC

VARIABLES
    \* provider-block rendering (SpecProv)
    providers,   \* []hcltmpl.NamedBlock handed to appendRootProviderBlocks
    body,        \* the hclwrite body after the call, NoBody before it
    \* attribute normalizer on two orderings of one input (SpecNorm)
    dA, dB,      \* two RootModuleInputData that differ only in order
    d0,          \* dA as the caller built it
    normA, normB,\* whether init() has run on dA / dB
    \* the Bundle Writer
    input,       \* the RootModuleInputData of the caller
    fs,          \* the file system: directory -> file name -> file
    pc,          \* "idle" between calls, "running" inside initModule's loop
    todo,        \* the entries of fileFuncs the range loop has not visited
    err,         \* what the last call returned, "none" before the first return
    startedEmpty,\* whether the target directory was empty when the call began
    written,     \* the files the running (or last) call has written in full
    failure,     \* the error of the step that failed in this call, else "none"
    prev         \* what the first of two renders of one input object did

provVars == <<providers, body>>
normVars == <<dA, dB, d0, normA, normB>>
writerVars == <<input, fs, pc, todo, err, startedEmpty, written, failure, prev>>
vars == <<providers, body, dA, dB, d0, normA, normB,
          input, fs, pc, todo, err, startedEmpty, written, failure, prev>>

----------------------------------------------------------------------------
(* Strings and their order.  Go compares strings bytewise; the strings the  *)
(* model uses are listed here in that order.                                *)

ByteOrder ==
    << "address", "alias", "api", "auth", "auto_commit", "aws", "dns", "host",
       "path", "region", "user", "web" >>

Rank(s) == CHOOSE i \in 1..Len(ByteOrder) : ByteOrder[i] = s

StrLess(a, b) == Rank(a) < Rank(b)

\* sort.Strings: the strings of set S in ascending order
RECURSIVE SortStrings(_)
SortStrings(S) ==
    IF S = {} THEN << >>
    ELSE LET m == CHOOSE x \in S : \A y \in S : ~StrLess(y, x)
         IN  << m >> \o SortStrings(S \ {m})

\* sortedKeys(m): the keys of map m, sorted
sortedKeys(m) == SortStrings(DOMAIN m)

\* hcltmpl.NamedBlock.SortedAttributes: the block's attribute names, ascending
SortedAttributes(p) == SortStrings(DOMAIN p.Variables)

----------------------------------------------------------------------------
(* hclwrite bodies: a sequence of items, an attribute whose value is a      *)
(* traversal, or a nested block with its own body.                          *)

NoBody == << [ kind |-> "unrendered" ] >>

Traversal(path) == [ traversal |-> path ]

AttributeItem(name, value) == [ kind |-> "attribute", name |-> name, value |-> value ]

BlockItem(type, labels, inner) ==
    [ kind |-> "block", name |-> type, labels |-> labels, body |-> inner ]

Newline == [ kind |-> "newline" ]

\* Body.SetAttributeTraversal: replaces the value of an attribute of that
\* name, appends a new attribute otherwise
SetAttributeTraversal(b, name, path) ==
    IF \E i \in 1..Len(b) : b[i].kind = "attribute" /\ b[i].name = name
    THEN [ i \in 1..Len(b) |->
             IF b[i].kind = "attribute" /\ b[i].name = name
             THEN AttributeItem(name, Traversal(path)) ELSE b[i] ]
    ELSE Append(b, AttributeItem(name, Traversal(path)))

\* Body.AppendNewBlock
AppendNewBlock(b, type, labels, inner) == Append(b, BlockItem(type, labels, inner))

\* Body.AppendNewline
AppendNewline(b) == Append(b, Newline)

Literal(v) == [ literal |-> v ]

\* Body.SetAttributeValue: as SetAttributeTraversal, with a literal value
SetAttributeValue(b, name, v) ==
    IF \E i \in 1..Len(b) : b[i].kind = "attribute" /\ b[i].name = name
    THEN [ i \in 1..Len(b) |->
             IF b[i].kind = "attribute" /\ b[i].name = name
             THEN AttributeItem(name, Literal(v)) ELSE b[i] ]
    ELSE Append(b, AttributeItem(name, Literal(v)))

\* a fold of SetAttributeValue over names, each with the literal valueOf[name]
RECURSIVE SetAttributeValues(_, _, _)
SetAttributeValues(b, names, valueOf) ==
    IF names = << >> THEN b
    ELSE SetAttributeValues(SetAttributeValue(b, Head(names), valueOf[Head(names)]),
                            Tail(names), valueOf)

\* a fold of SetAttributeTraversal over names, each the traversal var.<name>
RECURSIVE SetVarTraversals(_, _)
SetVarTraversals(b, names) ==
    IF names = << >> THEN b
    ELSE SetVarTraversals(SetAttributeTraversal(b, Head(names), << "var", Head(names) >>),
                          Tail(names))

----------------------------------------------------------------------------
(* Provider blocks of main.tf (appendRootProviderBlocks).                   *)
(* A NamedBlock is [Name, Variables]; Variables maps attribute names to     *)
(* cty values, here their types: [type |-> "string"] or                     *)
(* [type |-> "object", fields |-> key :> type of the key's value].          *)

StringVal == [ type |-> "string" ]

IsObjectType(val) == val.type = "object"

AsValueMap(val) == val.fields

\* the attributes the provider block drops: alias (a meta attribute) and
\* auto_commit (an internal setting)
SkippedAttrOnlyAlias(attr) == attr = "alias"

SkippedAttr(attr) == attr = "alias" \/ attr = "auto_commit"

\* the traversal var.<providerName>.<objAttr>.<subAttr>
subAttrTraversalNoAttr(p, attr, subAttr) == << "var", p.Name, subAttr >>

subAttrTraversal(p, attr, subAttr) == << "var", p.Name, attr, subAttr >>

\* the traversal var.<providerName>.<attr>
attrTraversal(p, attr) == << "var", p.Name, attr >>

\* the loop over sortedKeys(subAttrs) that fills the nested block
RECURSIVE objProviderBody(_, _, _, _)
objProviderBody(b, p, attr, subAttrs) ==
    IF subAttrs = << >> THEN b
    ELSE objProviderBody(
             SetAttributeTraversal(b, Head(subAttrs),
                                   subAttrTraversal(p, attr, Head(subAttrs))),
             p, attr, Tail(subAttrs))

\* one iteration of the loop over providerAttrs
providerAttr(providerBody, p, attr) ==
    IF SkippedAttr(attr) THEN providerBody
    ELSE LET val == p.Variables[attr]
         IN  IF IsObjectType(val)
             THEN AppendNewBlock(providerBody, attr, << >>,
                      objProviderBody(<< >>, p, attr, sortedKeys(AsValueMap(val))))
             ELSE SetAttributeTraversal(providerBody, attr, attrTraversal(p, attr))

\* the loop over providerAttrs
RECURSIVE providerBodyOf(_, _, _)
providerBodyOf(providerBody, p, providerAttrs) ==
    IF providerAttrs = << >> THEN providerBody
    ELSE providerBodyOf(providerAttr(providerBody, p, Head(providerAttrs)),
                        p, Tail(providerAttrs))

\* the loop over providers, from index i on
RECURSIVE appendProvidersFrom(_, _, _)
appendProvidersFrom(b, ps, i) ==
    IF i > Len(ps) THEN b
    ELSE LET p == ps[i]
             withBlock == AppendNewBlock(b, "provider", << p.Name >>,
                              providerBodyOf(<< >>, p, SortedAttributes(p)))
         IN  appendProvidersFrom(
                 IF i # Len(ps) THEN AppendNewline(withBlock) ELSE withBlock,
                 ps, i + 1)

appendRootProviderBlocks(b, ps) == appendProvidersFrom(b, ps, 1)

(* Inputs of the provider-block specification.                              *)

\* bound: the attributes of all providers of one input together
MaxAttrs == 3

AttrNames == { "alias", "auto_commit", "auth", "host" }

SubAttrNames == { "alias", "user" }

\* objects over the sub-attribute names; the value of user may itself be an
\* object (a second level of nesting)
ObjectVals ==
    UNION { { [ type |-> "object", fields |-> f ] :
                f \in { g \in [ K -> { "string", "object" } ] :
                          \A k \in K : g[k] = "object" => k = "user" } } :
            K \in SUBSET SubAttrNames }

AttrVals == { StringVal } \cup ObjectVals

VariablesOfSize(n) ==
    UNION { [ S -> AttrVals ] : S \in { T \in SUBSET AttrNames : Cardinality(T) = n } }

\* zero, one or two providers, sorted by name as init() leaves them
ProvInit ==
    /\ body = NoBody
    /\ \E n \in 0..MaxAttrs : \E m \in 0..(MaxAttrs - n) :
         \E v \in VariablesOfSize(n) : \E w \in VariablesOfSize(m) :
           \/ providers = << >> /\ n = 0 /\ m = 0
           \/ providers = << [ Name |-> "aws", Variables |-> v ] >> /\ m = 0
           \/ providers = << [ Name |-> "aws", Variables |-> v ],
                             [ Name |-> "dns", Variables |-> w ] >>

\* newMainTF's call of appendRootProviderBlocks on the body built so far
AppendRootProviderBlocks ==
    /\ body = NoBody
    /\ body' = appendRootProviderBlocks(<< >>, providers)
    /\ UNCHANGED providers

----------------------------------------------------------------------------
(* RootModuleInputData and the Attribute Normalizer (init).                 *)
(* A Go map is [isNil, keys]; the backend map has at most one key, the      *)
(* backend's name, and attrs are that backend's attribute names.            *)

NilMap == [ isNil |-> TRUE, keys |-> {}, attrs |-> {} ]

EmptyMap == [ isNil |-> FALSE, keys |-> {}, attrs |-> {} ]

NilBlock == [ isNil |-> TRUE, Name |-> "", attrs |-> {} ]

\* hcltmpl.NewNamedBlock: the block named after the map's key, the zero
\* NamedBlock (Name "") for a map without keys
NewNamedBlock(m) ==
    IF m.keys = {} THEN [ isNil |-> FALSE, Name |-> "", attrs |-> {} ]
    ELSE [ isNil |-> FALSE, Name |-> CHOOSE k \in m.keys : TRUE, attrs |-> m.attrs ]

\* the less functions of init's two sort.Slice calls: by Name, ascending
lessByNameDescending(a, b) == StrLess(b.Name, a.Name)

lessByName(a, b) == StrLess(a.Name, b.Name)

Swap(s, i, j) == [ s EXCEPT ![i] = s[j], ![j] = s[i] ]

\* sort.Slice on a slice of fewer than 12 elements is an insertion sort:
\* for i := a+1; i < b; i++ { for j := i; j > a && less(j, j-1); j-- { swap } }
RECURSIVE insertDown(_, _)
insertDown(s, j) ==
    IF j > 1 /\ lessByName(s[j], s[j - 1])
    THEN insertDown(Swap(s, j, j - 1), j - 1)
    ELSE s

RECURSIVE insertionSort(_, _)
insertionSort(s, i) ==
    IF i > Len(s) THEN s ELSE insertionSort(insertDown(s, i), i + 1)

sortSliceByName(s) == insertionSort(s, 2)

\* RootModuleInputData.init
init(d) ==
    [ d EXCEPT
        !.backend   = IF ~d.Backend.isNil THEN NewNamedBlock(d.Backend) ELSE d.backend,
        !.Backend   = IF ~d.Backend.isNil THEN d.Backend ELSE EmptyMap,
        !.Providers = sortSliceByName(d.Providers),
        !.Services  = sortSliceByName(d.Services) ]

\* a RootModuleInputData as a caller builds it (backend is unexported, nil)
InputData(provs, svcs, bknd, variables, skip) ==
    [ Backend      |-> bknd,
      backend      |-> NilBlock,
      Providers    |-> provs,
      Services     |-> svcs,
      ProviderInfo |-> {},
      Variables    |-> variables,
      Path         |-> "dirA",
      skipOverride |-> skip ]

(* Inputs of the normalizer specification: two inputs that differ only in   *)
(* the order of Providers and of Services.                                  *)

\* bound: the length of Providers and of Services
MaxLen == 2

ProviderPool ==
    { [ Name |-> "aws", Variables |-> << >> ],
      [ Name |-> "aws", Variables |-> [ x \in { "alias" } |-> StringVal ] ],
      [ Name |-> "dns", Variables |-> << >> ] }

\* Name and Datacenter of a Service; init reads no other field
ServicePool ==
    { [ Name |-> "api", Datacenter |-> "" ],
      [ Name |-> "web", Datacenter |-> "" ],
      [ Name |-> "web", Datacenter |-> "dc1" ] }

SeqsUpTo(S, n) == UNION { [ 1..k -> S ] : k \in 0..n }

IsPermutation(s, t) ==
    /\ Len(s) = Len(t)
    /\ \E f \in Permutations(1..Len(s)) : \A i \in 1..Len(s) : s[i] = t[f[i]]

NormInit ==
    /\ \E ps \in SeqsUpTo(ProviderPool, MaxLen), ss \in SeqsUpTo(ServicePool, MaxLen) :
         /\ dA = InputData(ps, ss, NilMap, {}, FALSE)
         /\ \E qs \in SeqsUpTo(ProviderPool, MaxLen), ts \in SeqsUpTo(ServicePool, MaxLen) :
              /\ IsPermutation(qs, ps)
              /\ IsPermutation(ts, ss)
              /\ dB = InputData(qs, ts, NilMap, {}, FALSE)
    /\ d0 = dA
    /\ normA = FALSE
    /\ normB = FALSE

\* input.init() on the first / on the second input
InitA ==
    /\ dA' = init(dA)
    /\ normA' = TRUE
    /\ UNCHANGED << dB, d0, normB >>

InitB ==
    /\ dB' = init(dB)
    /\ normB' = TRUE
    /\ UNCHANGED << dA, d0, normA >>

----------------------------------------------------------------------------
(* The main.tf renderer (newMainTF) and the preamble.                       *)

RootFilename == "main.tf"
VarsFilename == "variables.tf"
ModuleVarsFilename == "variables.module.tf"
TFVarsTmplFilename == "terraform.tfvars.tmpl"
ProvidersTFVarsFilename == "providers.tfvars"

rootFileFuncs == { RootFilename, VarsFilename, ModuleVarsFilename }

tfvarsFileFuncs == { TFVarsTmplFilename, ProvidersTFVarsFilename }

RootPreamble == [ chunk |-> "RootPreamble" ]

TaskPreamble(task) ==
    [ chunk |-> "TaskPreamble", name |-> task.Name, description |-> task.Description ]

Content(filename, b) == [ chunk |-> "content", file |-> filename, body |-> b ]

\* the task of every input of the model
TheTask ==
    [ Name |-> "task", Description |-> "automate services", Source |-> "namespace/module",
      Version |-> "" ]

nil == "nil"

\* backend == nil || backend.Name == ""
noBackendNilOnly(backend) == backend.isNil

noBackend(backend) == backend.isNil \/ backend.Name = ""

\* appendRootTerraformBlock; providerInfo is the set of provider names that
\* have required-provider metadata
appendRootTerraformBlock(b, backend, providerInfo) ==
    LET versioned == SetAttributeValue(<< >>, "required_version", "TerraformRequiredVersion")
        required  ==
            IF Cardinality(providerInfo) # 0
            THEN AppendNewBlock(versioned, "required_providers", << >>,
                     SetAttributeValues(<< >>, SortStrings(providerInfo),
                                        [ n \in providerInfo |-> << "info", n >> ]))
            ELSE versioned
        tfBody    ==
            IF noBackend(backend) THEN required
            ELSE AppendNewBlock(required, "backend", << backend.Name >>,
                     SetAttributeValues(<< >>, SortStrings(backend.attrs),
                                        [ a \in backend.attrs |-> << "backend", a >> ]))
    IN  AppendNewBlock(b, "terraform", << >>, tfBody)

\* appendComment
appendComment(b, comment) ==
    AppendNewline(Append(b, [ kind |-> "comment", text |-> comment ]))

\* appendRootModuleBlock; the inputs of the model carry no Condition (nil)
appendRootModuleBlock(b, task, varNames) ==
    LET commented  == IF task.Description # "" THEN appendComment(b, task.Description) ELSE b
        sourced    == SetAttributeValue(<< >>, "source", task.Source)
        versioned  == IF task.Version # "" THEN SetAttributeValue(sourced, "version", task.Version)
                      ELSE sourced
        serviced   == SetAttributeTraversal(versioned, "services", << "var", "services" >>)
        spaced     == IF Len(varNames) # 0 THEN AppendNewline(serviced) ELSE serviced
    IN  AppendNewBlock(commented, "module", << task.Name >>, SetVarTraversals(spaced, varNames))

\* hcltmpl.Variables.Keys: the variable names in ascending order
Keys(variables) == SortStrings(variables)

\* the hclwrite file newMainTF builds
mainTFContent(d) ==
    LET b1 == AppendNewline(<< >>)
        b2 == appendRootTerraformBlock(b1, d.backend, d.ProviderInfo)
        b3 == AppendNewline(b2)
        b4 == appendRootProviderBlocks(b3, d.Providers)
        b5 == AppendNewline(b4)
    IN  appendRootModuleBlock(b5, TheTask, Keys(d.Variables))

\* a write to the file either appends the chunk or fails and appends nothing
Write(content, chunk, ok) == IF ok THEN Append(content, chunk) ELSE content

\* writePreamble: the error of the first write is logged and overwritten by
\* the second write's, which is returned
writePreamble(content, okRoot, okTask) ==
    [ content |-> Write(Write(content, RootPreamble, okRoot), TaskPreamble(TheTask), okTask),
      err     |-> IF okTask THEN nil ELSE "write TaskPreamble" ]

\* newMainTF; oks[1..3] tell which of its three writes succeed
newMainTF(content, d, oks) ==
    LET pre == writePreamble(content, oks[1], oks[2])
    IN  IF pre.err # nil THEN pre
        ELSE [ content |-> Write(pre.content, Content(RootFilename, mainTFContent(d)),
                                 oks[3]),
               err     |-> IF oks[3] THEN nil ELSE "write content" ]

\* the renderers of the other four files: the preamble, then a body made from
\* the d data the file kind declares or carries; either all of it is
\* written or an error is returned
otherTFContent(filename, d) ==
    IF filename = ModuleVarsFilename THEN Keys(d.Variables)
    ELSE IF filename = TFVarsTmplFilename THEN d.Services
    ELSE [ i \in 1..Len(d.Providers) |-> d.Providers[i].Name ]

newOtherTF(content, filename, d, oks) ==
    IF oks[1] /\ oks[2] /\ oks[3]
    THEN [ content |-> content \o << RootPreamble, TaskPreamble(TheTask),
                                      Content(filename, otherTFContent(filename, d)) >>,
           err     |-> nil ]
    ELSE [ content |-> content, err |-> "write content" ]

\* the tfFileFunc of a file name
newFileFunc(content, filename, d, oks) ==
    IF filename = RootFilename THEN newMainTF(content, d, oks)
    ELSE newOtherTF(content, filename, d, oks)

----------------------------------------------------------------------------
(* The Bundle Writer (InitRootModule, initModule) over a file system.       *)

Dirs == { "dirA", "dirB" }

fileFuncs == rootFileFuncs \cup tfvarsFileFuncs

FilePerms == "FilePerms"

Absent == [ exists |-> FALSE, perm |-> "", content |-> << >> ]

\* a file that was in the directory before any render
Sentinel == [ exists |-> TRUE, perm |-> "sentinel", content |-> << [ chunk |-> "sentinel" ] >> ]

EmptyDir == [ f \in fileFuncs |-> Absent ]

\* os.Stat on filepath.Join(path, filename)
Stat(path, filename) == IF fs[path][filename].exists THEN nil ELSE "ErrNotExist"

IsNotExist(e) == e = "ErrNotExist"

fileExists(path, filename) ==
    LET e == Stat(path, filename)
    IN  IF e # nil THEN (IF IsNotExist(e) THEN FALSE ELSE TRUE) ELSE TRUE

\* os.Create: a new empty file, or the existing file truncated with its mode kept
Create(file) ==
    [ exists |-> TRUE, perm |-> IF file.exists THEN file.perm ELSE "default",
      content |-> << >> ]

\* File.Chmod
Chmod(file, perm) == [ file EXCEPT !.perm = perm ]

\* the test that skips variables.module.tf
skipModuleVarsNever(filename, d) == FALSE

skipModuleVars(filename, d) ==
    filename = ModuleVarsFilename /\ Cardinality(d.Variables) = 0

\* the test that skips a file that exists, in skip-existing mode
skipExistingNever(path, filename, d) == fileExists(path, filename) /\ FALSE

skipExisting(path, filename, d) == fileExists(path, filename) /\ d.skipOverride

\* return err: the call ends and hands e to the caller
logAndContinue(e, rest) == [ pc |-> "running", err |-> "none", todo |-> rest ]

returnErr(e, rest) == [ pc |-> "idle", err |-> e, todo |-> rest ]

WriteOutcomes == [ 1..3 -> BOOLEAN ]

VarSets == { {}, { "region" } }

\* InitRootModule up to the call of initModule: init() and the union of the
\* two file maps; the caller has set Variables and skipOverride before
Call(variables, skip, path) ==
    /\ pc = "idle"
    /\ input' = init([ input EXCEPT !.Variables = variables, !.skipOverride = skip,
                                    !.Path = path ])
    /\ todo' = rootFileFuncs \cup tfvarsFileFuncs
    /\ pc' = "running"
    /\ err' = "none"
    /\ startedEmpty' = (fs[path] = EmptyDir)
    /\ written' = {}
    /\ failure' = "none"
    /\ UNCHANGED fs

\* one iteration of the range loop ends with continue
Continue(filename) ==
    /\ todo' = todo \ { filename }
    /\ UNCHANGED << input, pc, err, startedEmpty, failure >>

\* one iteration of the range loop ends with return err
Fail(filename, e) ==
    LET r == returnErr(e, todo \ { filename })
    IN  /\ pc' = r.pc
        /\ err' = r.err
        /\ todo' = r.todo
        /\ failure' = e
        /\ UNCHANGED << input, startedEmpty >>

\* the range loop picks any entry it has not visited (Go's map order)
SkipNoVariables(filename) ==
    /\ pc = "running" /\ filename \in todo
    /\ skipModuleVars(filename, input)
    /\ Continue(filename)
    /\ UNCHANGED << fs, written >>

SkipExisting(filename) ==
    /\ pc = "running" /\ filename \in todo
    /\ ~skipModuleVars(filename, input)
    /\ skipExisting(input.Path, filename, input)
    /\ Continue(filename)
    /\ UNCHANGED << fs, written >>

CreateFails(filename) ==
    /\ pc = "running" /\ filename \in todo
    /\ ~skipModuleVars(filename, input)
    /\ ~skipExisting(input.Path, filename, input)
    /\ Fail(filename, "create")
    /\ UNCHANGED << fs, written >>

ChmodFails(filename) ==
    /\ pc = "running" /\ filename \in todo
    /\ ~skipModuleVars(filename, input)
    /\ ~skipExisting(input.Path, filename, input)
    /\ fs' = [ fs EXCEPT ![input.Path][filename] = Create(@) ]
    /\ Fail(filename, "chmod")
    /\ UNCHANGED written

Render(filename, oks) ==
    /\ pc = "running" /\ filename \in todo
    /\ ~skipModuleVars(filename, input)
    /\ ~skipExisting(input.Path, filename, input)
    /\ LET f == Chmod(Create(fs[input.Path][filename]), FilePerms)
           r == newFileFunc(f.content, filename, input, oks)
       IN  /\ fs' = [ fs EXCEPT ![input.Path][filename] = [ f EXCEPT !.content = r.content ] ]
           /\ IF r.err # nil
              THEN /\ Fail(filename, r.err)
                   /\ UNCHANGED written
              ELSE /\ Continue(filename)
                   /\ written' = written \cup { filename }

\* the loop is over: return nil
Return ==
    /\ pc = "running" /\ todo = {}
    /\ pc' = "idle"
    /\ err' = nil
    /\ UNCHANGED << input, fs, todo, startedEmpty, written, failure >>

NoPrev ==
    [ input |-> InputData(<< >>, << >>, NilMap, {}, FALSE), steps |-> 0, written |-> {},
      failure |-> "none" ]

\* the caller renders the same input object once more, into another directory
CallAgain(path) ==
    /\ Call(input.Variables, input.skipOverride, path)
    /\ prev' = [ input |-> input, steps |-> Cardinality(fileFuncs \ todo),
                 written |-> written, failure |-> failure ]

WriterParked ==
    /\ prev = NoPrev
    /\ input = InputData(<< >>, << >>, NilMap, {}, FALSE)
    /\ fs = [ dir \in Dirs |-> EmptyDir ]
    /\ pc = "idle"
    /\ todo = {}
    /\ err = "none"
    /\ startedEmpty = FALSE
    /\ written = {}
    /\ failure = "none"

\* the other specifications' variables, at rest
NormParked ==
    /\ dA = InputData(<< >>, << >>, NilMap, {}, FALSE)
    /\ dB = dA
    /\ d0 = dA
    /\ normA = FALSE
    /\ normB = FALSE

ProvParked ==
    /\ providers = << >>
    /\ body = NoBody

SpecProvInit == ProvInit /\ NormParked /\ WriterParked

SpecProvNext == AppendRootProviderBlocks /\ UNCHANGED normVars /\ UNCHANGED writerVars

SpecProv == SpecProvInit /\ [][SpecProvNext]_vars

(* Reading a rendered body back.                                            *)

\* the provider blocks of the rendered body, in order
ProviderBlocks == SelectSeq(body, LAMBDA it : it.kind = "block")

Rendered == body # NoBody

ItemNames(b) == { b[i].name : i \in 1..Len(b) }

\* the names of b's items ascend strictly: sorted, and none twice
Ascending(b) == \A i \in 1..(Len(b) - 1) : StrLess(b[i].name, b[i + 1].name)

ControlNames == { "alias", "auto_commit" }

\* C3 as stated: neither name shows in a provider block, at the top level or
\* inside a nested block, and every other top-level attribute is emitted once
C3_Original ==
    Rendered =>
        /\ Len(ProviderBlocks) = Len(providers)
        /\ \A i \in 1..Len(providers) :
             LET blk == ProviderBlocks[i].body
             IN  /\ ItemNames(blk) \cap ControlNames = {}
                 /\ \A k \in 1..Len(blk) :
                      blk[k].kind = "block" =>
                          ItemNames(blk[k].body) \cap ControlNames = {}
                 /\ \A a \in DOMAIN providers[i].Variables \ ControlNames :
                      Cardinality({ k \in 1..Len(blk) : blk[k].name = a }) = 1

\* C3: no top-level attribute or nested block of a provider block is named
\* alias or auto_commit, every other top-level attribute of the provider is
\* emitted exactly once, and the keys of an object-typed attribute are all
\* emitted in its nested block, those named alias or auto_commit included
C3_TopLevelSuppressed ==
    Rendered =>
        /\ Len(ProviderBlocks) = Len(providers)
        /\ \A i \in 1..Len(providers) :
             LET blk == ProviderBlocks[i].body
                 pv  == providers[i].Variables
             IN  /\ ItemNames(blk) \cap ControlNames = {}
                 /\ \A a \in DOMAIN pv \ ControlNames :
                      Cardinality({ k \in 1..Len(blk) : blk[k].name = a }) = 1
                 /\ \A k \in 1..Len(blk) :
                      blk[k].kind = "block" =>
                          ItemNames(blk[k].body) = DOMAIN pv[blk[k].name].fields

\* a provider that carries both control attributes and an object-typed one
\* with a key named alias has been rendered
C3_Witness ==
    /\ Rendered
    /\ \E i \in 1..Len(providers) :
         /\ ControlNames \subseteq DOMAIN providers[i].Variables
         /\ "auth" \in DOMAIN providers[i].Variables
         /\ providers[i].Variables["auth"].type = "object"
         /\ "alias" \in DOMAIN providers[i].Variables["auth"].fields
         /\ Len(ProviderBlocks[i].body) = 1
         /\ "alias" \in ItemNames(ProviderBlocks[i].body[1].body)

\* C7: in every provider block the items are the provider's attributes other
\* than alias and auto_commit in ascending name order; an object-typed one is
\* a nested block whose items are attributes only, one per key in ascending
\* key order, each the traversal var.<provider>.<attribute>.<key>; any other
\* is one attribute with the traversal var.<provider>.<attribute>
C7_ProviderBlockShape ==
    Rendered =>
        /\ Len(ProviderBlocks) = Len(providers)
        /\ \A i \in 1..Len(providers) :
             LET blk == ProviderBlocks[i].body
                 p   == providers[i]
             IN  /\ ProviderBlocks[i].labels = << p.Name >>
                 /\ ItemNames(blk) = DOMAIN p.Variables \ ControlNames
                 /\ Ascending(blk)
                 /\ \A k \in 1..Len(blk) :
                      LET it == blk[k]
                      IN  IF p.Variables[it.name].type = "object"
                          THEN /\ it.kind = "block"
                               /\ ItemNames(it.body) = DOMAIN p.Variables[it.name].fields
                               /\ Ascending(it.body)
                               /\ \A j \in 1..Len(it.body) :
                                    /\ it.body[j].kind = "attribute"
                                    /\ it.body[j].value =
                                         Traversal(<< "var", p.Name, it.name, it.body[j].name >>)
                          ELSE /\ it.kind = "attribute"
                               /\ it.value = Traversal(<< "var", p.Name, it.name >>)

\* a provider with an object-typed attribute of two keys, one of them itself
\* an object, beside a plain attribute, has been rendered
C7_Witness ==
    /\ Rendered
    /\ \E i \in 1..Len(providers) :
         LET pv == providers[i].Variables
         IN  /\ { "auth", "host" } \subseteq DOMAIN pv
             /\ pv["host"].type = "string"
             /\ pv["auth"].type = "object"
             /\ DOMAIN pv["auth"].fields = { "alias", "user" }
             /\ pv["auth"].fields["user"] = "object"
             /\ Len(ProviderBlocks[i].body) = 2
             /\ Len(ProviderBlocks[i].body[1].body) = 2

----------------------------------------------------------------------------
(* The normalizer on two orderings of one input.                            *)

SpecNormInit == NormInit /\ ProvParked /\ WriterParked

SpecNormNext ==
    \/ InitA /\ UNCHANGED provVars /\ UNCHANGED writerVars
    \/ InitB /\ UNCHANGED provVars /\ UNCHANGED writerVars

SpecNorm == SpecNormInit /\ [][SpecNormNext]_vars

SortedByName(s) == \A i \in 1..(Len(s) - 1) : ~StrLess(s[i + 1].Name, s[i].Name)

DistinctNames(s) == \A i, j \in 1..Len(s) : s[i].Name = s[j].Name => i = j

SameNormalForm ==
    /\ dA.Providers = dB.Providers
    /\ dA.Services = dB.Services
    /\ appendRootProviderBlocks(<< >>, dA.Providers)
         = appendRootProviderBlocks(<< >>, dB.Providers)

\* C2 as stated: for every input, after init the two collections are sorted
\* permutations of the input, and two inputs that differ only in order have
\* the same normalized sequences and provider blocks
C2_Original ==
    /\ normA => /\ IsPermutation(dA.Providers, d0.Providers)
                /\ IsPermutation(dA.Services, d0.Services)
                /\ SortedByName(dA.Providers)
                /\ SortedByName(dA.Services)
    /\ (normA /\ normB) => SameNormalForm

\* C2: after init Providers and Services are each a permutation of the input
\* sorted by name ascending; when no two Providers and no two Services of the
\* input share a name, two inputs that differ only in the order of these
\* collections have identical normalized sequences and provider blocks
C2_OrderIndependence ==
    /\ normA => /\ IsPermutation(dA.Providers, d0.Providers)
                /\ IsPermutation(dA.Services, d0.Services)
                /\ SortedByName(dA.Providers)
                /\ SortedByName(dA.Services)
    /\ (normA /\ normB /\ DistinctNames(d0.Providers) /\ DistinctNames(d0.Services))
          => SameNormalForm

\* two inputs with distinct names, both collections in different orders, have
\* both been normalized
C2_Witness ==
    /\ normA
    /\ normB
    /\ DistinctNames(d0.Providers)
    /\ DistinctNames(d0.Services)
    /\ Len(d0.Providers) = MaxLen
    /\ Len(d0.Services) = MaxLen
    /\ ~SortedByName(d0.Providers)
    /\ ~SortedByName(d0.Services)
    /\ dA.Providers # d0.Providers
    /\ dA.Services # d0.Services
    /\ dA.Providers = dB.Providers

----------------------------------------------------------------------------
(* Renders of one task into its directory, which may hold files from        *)
(* before; every step that can fail may fail.                               *)

WriterInit ==
    /\ prev = NoPrev
    /\ input = InputData(<< >>, << >>, NilMap, {}, FALSE)
    /\ \E seeded \in SUBSET { RootFilename } :
         fs = [ dir \in Dirs |->
                  IF dir = "dirA"
                  THEN [ f \in fileFuncs |-> IF f \in seeded THEN Sentinel ELSE Absent ]
                  ELSE EmptyDir ]
    /\ pc = "idle"
    /\ todo = {}
    /\ err = "none"
    /\ startedEmpty = FALSE
    /\ written = {}
    /\ failure = "none"

Others == UNCHANGED provVars /\ UNCHANGED normVars

Once == UNCHANGED prev

SpecInit == WriterInit /\ ProvParked /\ NormParked

Next ==
    \/ \E v \in VarSets, skip \in BOOLEAN : Call(v, skip, "dirA") /\ Once /\ Others
    \/ \E f \in fileFuncs : SkipNoVariables(f) /\ Once /\ Others
    \/ \E f \in fileFuncs : SkipExisting(f) /\ Once /\ Others
    \/ \E f \in fileFuncs : CreateFails(f) /\ Once /\ Others
    \/ \E f \in fileFuncs : ChmodFails(f) /\ Once /\ Others
    \/ \E f \in fileFuncs, oks \in WriteOutcomes : Render(f, oks) /\ Once /\ Others
    \/ Return /\ Once /\ Others

Spec == SpecInit /\ [][Next]_vars

(* Reading the directory back.                                              *)

Dir == fs[input.Path]

\* the files a render of this input is to produce
Bundle == IF input.Variables = {} THEN fileFuncs \ { ModuleVarsFilename } ELSE fileFuncs

\* the body a render of this input writes to the file
BodyOf(filename) ==
    Content(filename,
            IF filename = RootFilename THEN mainTFContent(input)
            ELSE otherTFContent(filename, input))

\* the file is there with the configured mode and ends with that body
FullyWritten(file, filename) ==
    /\ file.exists
    /\ file.perm = FilePerms
    /\ Len(file.content) > 0
    /\ file.content[Len(file.content)] = BodyOf(filename)

Returned == pc = "idle" /\ err # "none"

C5_AbortOnError ==
    [][ /\ failure' # "none" =>
              /\ pc' = "idle" /\ err' = failure'
              /\ \A f \in written' : FullyWritten(fs'[input.Path][f], f)
        /\ (failure = "none" /\ failure' # "none") =>
              /\ \A f \in fileFuncs \ (todo \ todo') : fs'[input.Path][f] = Dir[f]
              /\ written' = written
        /\ failure # "none" => fs' = fs
      ]_vars

\* a render has failed after it wrote some files and before it visited others
C5_Witness ==
    /\ Returned /\ failure # "none"
    /\ written # {}
    /\ todo \cap Bundle # {}
    /\ \A f \in written : FullyWritten(Dir[f], f)
    /\ \A f \in todo \cap Bundle : ~Dir[f].exists

\* C8 as stated: after a render without skip-existing that returns nil, the
\* directory holds variables.module.tf iff Variables is non-empty
C8_Original ==
    (Returned /\ err = nil /\ ~input.skipOverride) =>
        (Dir[ModuleVarsFilename].exists <=> input.Variables # {})

PreambleErrors == { "write RootPreamble", "write TaskPreamble" }

\* C9 as stated: a failed preamble write is never what a render returns, and
\* never what ends it
C9_Original == err \notin PreambleErrors /\ failure \notin PreambleErrors


----------------------------------------------------------------------------
(* One input object rendered twice, into dirA and then into dirB, both      *)
(* empty, with no I/O failure.                                              *)

AllOk == [ i \in 1..3 |-> TRUE ]

BackendMaps ==
    { NilMap, EmptyMap, [ isNil |-> FALSE, keys |-> { "consul" }, attrs |-> { "path", "address" } ] }

IdemInit ==
    /\ \E ps \in SeqsUpTo(ProviderPool, MaxLen),
          ss \in SeqsUpTo({ sv \in ServicePool : sv.Datacenter = "" }, MaxLen),
          bk \in BackendMaps, pi \in { {}, { "dns", "aws" } }, vs \in VarSets :
         input = [ InputData(ps, ss, bk, vs, FALSE) EXCEPT !.ProviderInfo = pi ]
    /\ prev = NoPrev
    /\ fs = [ dir \in Dirs |-> EmptyDir ]
    /\ pc = "idle"
    /\ todo = {}
    /\ err = "none"
    /\ startedEmpty = FALSE
    /\ written = {}
    /\ failure = "none"

SpecIdemInit == IdemInit /\ ProvParked /\ NormParked

SpecIdemNext ==
    \/ err = "none" /\ Call(input.Variables, input.skipOverride, "dirA") /\ Once /\ Others
    \/ err = nil /\ input.Path = "dirA" /\ CallAgain("dirB") /\ Others
    \/ \E f \in fileFuncs : SkipNoVariables(f) /\ Once /\ Others
    \/ \E f \in fileFuncs : Render(f, AllOk) /\ Once /\ Others
    \/ Return /\ Once /\ Others

SpecIdem == SpecIdemInit /\ [][SpecIdemNext]_vars

SecondReturned == Returned /\ input.Path = "dirB"

\* C6: when the second render of the same input object has returned nil, the
\* two directories hold the same file names with the same content
C6_Idempotent ==
    (SecondReturned /\ err = nil /\ prev.failure = "none") => fs["dirA"] = fs["dirB"]

\* both renders have returned nil; the first ran with no backend block (nil),
\* the second with the zero block its init() made of the empty Backend map,
\* on two providers that init() had to reorder
C6_Witness ==
    /\ SecondReturned /\ err = nil
    /\ prev.input.backend = NilBlock
    /\ input.backend # NilBlock
    /\ Len(input.Providers) = 2
    /\ input.ProviderInfo # {}
    /\ fs["dirB"][RootFilename].exists
    /\ fs["dirA"] = fs["dirB"]

----------------------------------------------------------------------------
(* One input object rendered twice, into dirA and then into dirB, both      *)
(* empty, where every step that can fail may fail.                          *)

OrderInit ==
    /\ \E vs \in VarSets : input = InputData(<< >>, << >>, NilMap, vs, FALSE)
    /\ prev = NoPrev
    /\ fs = [ dir \in Dirs |-> EmptyDir ]
    /\ pc = "idle"
    /\ todo = {}
    /\ err = "none"
    /\ startedEmpty = FALSE
    /\ written = {}
    /\ failure = "none"

SpecOrderInit == OrderInit /\ ProvParked /\ NormParked

SpecOrderNext ==
    \/ err = "none" /\ Call(input.Variables, input.skipOverride, "dirA") /\ Once /\ Others
    \/ Returned /\ input.Path = "dirA" /\ CallAgain("dirB") /\ Others
    \/ \E f \in fileFuncs : SkipNoVariables(f) /\ Once /\ Others
    \/ \E f \in fileFuncs : CreateFails(f) /\ Once /\ Others
    \/ \E f \in fileFuncs : ChmodFails(f) /\ Once /\ Others
    \/ \E f \in fileFuncs, oks \in WriteOutcomes : Render(f, oks) /\ Once /\ Others
    \/ Return /\ Once /\ Others

SpecOrder == SpecOrderInit /\ [][SpecOrderNext]_vars

\* C10 as stated: two renders of the same input visit the files in the same
\* order, so when both fail with the same error at the same step they have
\* written the same files
C10_Original ==
    ( /\ SecondReturned
      /\ failure # "none"
      /\ failure = prev.failure
      /\ Cardinality(fileFuncs \ todo) = prev.steps ) => written = prev.written

====
